---- MODULE Spec2Model ----
(***************************************************************************)
(* State-machine model of the OpenEVSE websocket connection               *)
(* (openevsehttp/websocket.py) together with the parts of the facade      *)
(* (openevsehttp/__main__.py) that drive it: ws_start(), ws_disconnect(), *)
(* the keepalive ticker repeat() and the callback _update_status().       *)
(*                                                                         *)
(* Three cooperative tasks share the connection object:                    *)
(*   - the listen task   : listen() -> running() in a loop                 *)
(*   - the ticker task   : repeat(300, keepalive)                          *)
(*   - the caller of close()                                               *)
(* A task runs without interruption between two suspension points          *)
(* (awaits that really yield: the handshake, the wait for the next frame,  *)
(* leaving the "async with" block, asyncio.sleep), so every action below   *)
(* is the code between two such points.                                    *)
(***************************************************************************)
EXTENDS Integers, Sequences, FiniteSets, TLC

\* ---------------------------------------------------------------- bounds
MaxAttempts == 2        \* running() invocations on an open session
MaxRetryAttempts == 8   \* running() invocations explored under SpecRetry
MaxFrames == 2          \* text frames dispatched
MaxTicks == 2           \* keepalive() invocations
MaxCloses == 1          \* close() invocations
MaxRetryTicks == 3      \* keepalive() invocations explored under SpecRetry
MaxSetterCalls == 3     \* setter invocations explored under SpecSetter
MaxSessionTicks == 1    \* keepalive() invocations explored under SpecSession
MaxVal == 2             \* values 1..MaxVal of an entry of a JSON object
MaxUpdates == 2         \* update() calls made by the application
MaxPayloads == 1        \* data payloads handed to the facade
MaxSignals == 2         \* state signals handed to the facade
MaxStarts == 2          \* ws_start() calls made by the application

\* ------------------------------------------------------ program constants
MAX_FAILED_ATTEMPTS == 5

ERROR_AUTH_FAILURE == "Authorization failure"
ERROR_TOO_MANY_RETRIES == "Too many retries"
ERROR_PING_TIMEOUT == "No pong reply"

SIGNAL_CONNECTION_STATE == "websocket_state"
STATE_CONNECTED == "connected"
STATE_DISCONNECTED == "disconnected"
STATE_STARTING == "starting"
STATE_STOPPED == "stopped"

None == "None"

\* None in the fields that otherwise hold a connection id or a time.
Unset == 0

\* Exception objects delivered as error reasons.
ResponseError500 == "ClientResponseError(500)"
UnexpectedError == "Exception"

States == {STATE_STARTING, STATE_CONNECTED, STATE_DISCONNECTED, STATE_STOPPED}

VARIABLES
    state,            \* self._state
    failed_attempts,  \* self.failed_attempts
    error_reason,     \* self._error_reason
    client,           \* self._client: Unset, or the connection, named by
                      \* the clock reading at its handshake
    ping,             \* self._ping: Unset or a time
    pong,             \* self._pong: Unset or a time
    transport_open,   \* the transport behind self._client is open
    pc,               \* position of the listen task
    exiting,          \* how the "async with" block is being left
    tpc,              \* position of the ticker task
    notified,         \* number of state notifications made to self.callback
    last_notice,      \* <<state, reason>> of the last state notification
    stopped_notices,  \* number of Stopped notifications among them
    data_calls,       \* number of ("data", payload, None) callback calls
    last_data,        \* payload of the last of them
    nsleeps,          \* number of asyncio.sleep calls of the listen task
    retry_delay,      \* the delay passed to the last of them
    now,              \* clock read by datetime.datetime.now()
    attempts,         \* number of running() invocations
    frames,           \* number of text frames dispatched
    ticks,            \* number of keepalive() invocations
    closes,           \* number of close() invocations
    writes,           \* number of invocations of the state setter
    event,            \* the input handled by the last step
    ws_listening,     \* OpenEVSE._ws_listening
    cached_status,    \* OpenEVSE._status: the payload merged last
    cached_config,    \* OpenEVSE._config: number of resyncs by the handler
    sub_calls,        \* invocations of the subscriber, OpenEVSE.callback
    sub_seen,         \* self._status as the subscriber found it last
    attempt_notices,  \* Starting / Connected notified in this attempt
    closed_at,        \* <<pc, state>> when close() was called last
    session_external, \* the session was supplied by the caller
    session_open,     \* the session used by the connection is open
    status_dict,      \* OpenEVSE._status, key by key
    config_dict,      \* OpenEVSE._config: the reply of /config
    websocket,        \* OpenEVSE.websocket: NoObject or the id of the object
    upd,              \* per caller, the URLs its update() has yet to fetch
    pending,          \* the payload whose handler awaits its resync
    upd_calls,        \* number of update() calls made by the application
    starts,           \* number of ws_start() calls
    task_pairs,       \* listen task / ticker pairs made by _start_listening
    op_request,       \* NoRequest, or <<operation, method>> of the request
                      \* that a version-gated operation awaits
    entry,            \* the caches and the flag when the application's
                      \* update() began, with the writes others made since,
                      \* and whether nothing else has happened since
    device,           \* <<status, config>> the device replies with
    callback,         \* OpenEVSE.callback: the subscriber, if any
    refreshed         \* Stale, or the caches as the application's last
                      \* successful update() left them, untouched since,
                      \* the flag when it began, and how many successful
                      \* calls in a row have left them so

vars == <<state, failed_attempts, error_reason, client, ping, pong,
          transport_open, pc, exiting, tpc, notified, last_notice,
          stopped_notices, data_calls, last_data, nsleeps, retry_delay, now,
          attempts, frames, ticks, closes, writes, event, ws_listening,
          cached_status, cached_config, sub_calls, sub_seen,
          attempt_notices,
          closed_at,
          session_external, session_open, status_dict, config_dict,
          websocket, upd, pending, upd_calls, starts,
          task_pairs, op_request, entry, device, callback, refreshed>>

connVars == <<state, error_reason, writes, notified, last_notice,
              stopped_notices, attempt_notices, ws_listening>>
dataVars == <<data_calls, last_data, cached_status, cached_config,
              sub_calls, sub_seen>>
facadeVars == <<status_dict, config_dict, websocket, upd, pending,
                upd_calls, starts, task_pairs, op_request, entry, device,
                callback, refreshed>>
closeVars == <<closes, closed_at, session_external, session_open,
               facadeVars>>
sleepVars == <<nsleeps, retry_delay>>
listenVars == <<failed_attempts, client, pc, exiting, sleepVars, attempts,
                frames, dataVars>>
pingVars == <<ping, pong, now>>

Ev(op, arg) == [op |-> op, arg |-> arg]

TextArg(payload, outcome) == payload \o ":" \o outcome

\* ------------------------------------------------------------ JSON objects
\* The keys of the objects the device sends: the push name and the REST name
\* of the energy counter, a plain reading, a key of UPDATE_TRIGGERS.
Keys == {"wh", "watthour", "temp", "config_version"}

\* A key that the object does not hold.
Absent == 0

\* A JSON object: the value of every key, or Absent.
Dicts == [Keys -> 0..MaxVal]

EmptyDict == [k \in Keys |-> Absent]

\* The replies of /config: the object without a "version" key (NoVersion),
\* the firmware release it names (1 for a release older than 2.9.1, 2 for
\* 2.9.1, 3 for 4.0.1, 4 for 4.1.0, 5 for 5.0.0), or a build named "master".
NoVersion == 0
Master == 9
Versions == {NoVersion, 1, 2, 3, 4, 5, Master}

\* No version-gated operation awaits a request.
NoRequest == <<>>

\* self.websocket is None
NoObject == 0

\* No successful update() to compare the caches with.
Stale == <<>>

\* Who runs update(): the application, _update_status for a payload with a
\* trigger key, or process_request() for the reply of a POST that holds
\* "config_version".
Callers == {"user", "handler", "op"}

\* OpenEVSE.__init__, but for self.websocket and self._ws_listening.
FacadeFields ==
    /\ status_dict = EmptyDict
    /\ config_dict = NoVersion
    /\ upd = [c \in Callers |-> <<>>]
    /\ pending = EmptyDict
    /\ upd_calls = 0
    /\ starts = 0
    /\ task_pairs = 0
    /\ op_request = NoRequest
    /\ entry = <<EmptyDict, NoVersion, FALSE, FALSE>>
    /\ refreshed = Stale

\* The facade after update() has created the connection object: nothing
\* is listening yet.  The session is the one the connection object made.
InitFields ==
    /\ FacadeFields
    /\ state = None
    /\ failed_attempts = 0
    /\ error_reason = None
    /\ client = Unset
    /\ ping = Unset
    /\ pong = Unset
    /\ transport_open = FALSE
    /\ pc = "idle"
    /\ exiting = "none"
    /\ tpc = "idle"
    /\ notified = 0
    /\ last_notice = <<None, None>>
    /\ stopped_notices = 0
    /\ data_calls = 0
    /\ last_data = None
    /\ nsleeps = 0
    /\ retry_delay = 0
    /\ now = 1
    /\ attempts = 0
    /\ frames = 0
    /\ ticks = 0
    /\ closes = 0
    /\ writes = 0
    /\ event = Ev("init", None)
    /\ ws_listening = FALSE
    /\ cached_status = None
    /\ cached_config = 0
    /\ sub_calls = 0
    /\ sub_seen = None
    /\ attempt_notices = <<>>
    /\ closed_at = <<"none", None>>
    /\ session_open = TRUE

\* OpenEVSEWebsocket.__init__: self.session = aiohttp.ClientSession()
Init ==
    /\ InitFields
    /\ callback = "function"
    /\ session_external = FALSE
    /\ websocket = 1
    /\ device = <<EmptyDict, NoVersion>>

\* ---------------------------------------------------------------- callback
\* The payloads of the text frames: one with the key "pong", one with a
\* plain status key, one with a key of UPDATE_TRIGGERS.
Payloads == {"pong", "status", "config_version"}

UPDATE_TRIGGERS == {"config_version"}

\* A handler whose Stopped branch was dropped.
ListeningAfterNoStopped(listening, data, error) ==
    IF data = STATE_CONNECTED THEN TRUE
    ELSE IF data = STATE_DISCONNECTED THEN FALSE
    ELSE listening

\* _update_status, the branch of the connection-state signal: the value of
\* self._ws_listening after the call.
ListeningAfter(listening, data, error) ==
    IF data = STATE_CONNECTED THEN TRUE
    ELSE IF data = STATE_DISCONNECTED THEN FALSE
    ELSE IF data = STATE_STOPPED /\ error # None THEN FALSE
    ELSE listening

\* What the callback has seen of the current attempt.
NoticesAfter(data) ==
    IF data = STATE_STARTING THEN <<STATE_STARTING>>
    ELSE IF data = STATE_CONNECTED THEN Append(attempt_notices, data)
    ELSE attempt_notices

\* await self.callback(SIGNAL_CONNECTION_STATE, data, error) with
\* self._ws_listening = listening at the call.
Notify(listening, data, error) ==
    /\ notified' = notified + 1
    /\ last_notice' = <<data, error>>
    /\ stopped_notices' =
          stopped_notices + (IF data = STATE_STOPPED THEN 1 ELSE 0)
    /\ attempt_notices' = NoticesAfter(data)
    /\ ws_listening' = ListeningAfter(listening, data, error)

\* What OpenEVSE.callback holds: nothing, a plain function or a coroutine
\* function.
Subscribers == {None, "function", "coroutine"}

\* asyncio.iscoroutinefunction(callback)
is_coroutine_function(cb) == cb = "coroutine"

\* How often the subscriber runs when it is called: the call of a coroutine
\* function makes a coroutine, which runs only if it is awaited.
Runs(cb, awaited) == IF cb = "coroutine" /\ ~awaited THEN 0 ELSE 1

\* A handler that calls every subscriber without awaiting the call.
InvokedNeverAwaited(cb) == IF cb = None THEN 0 ELSE Runs(cb, FALSE)

\* if self.callback is not None: "await self.callback()" for a coroutine
\* function, "self.callback()" otherwise.
Invoked(cb) == IF cb = None THEN 0 ELSE Runs(cb, is_coroutine_function(cb))

\* self._status.update(data) comes before the call of the subscriber: what
\* the subscriber finds in self._status.
SeenAfterMerge(before, after) == after

\* The call of the subscriber at the end of the handler, with self._status
\* holding before until the merge and after from then on.
Subscriber(before, after) ==
    /\ sub_calls' = sub_calls + Invoked(callback)
    /\ sub_seen' = IF Invoked(callback) > 0
                   THEN SeenAfterMerge(before, after)
                   ELSE sub_seen

\* _update_status, the branch of "data", run to the end: the resync for a
\* trigger key, the merge into the cached status, the subscriber.
Merge(data) ==
    /\ cached_config' =
          cached_config + (IF data \in UPDATE_TRIGGERS THEN 1 ELSE 0)
    /\ cached_status' = data
    /\ Subscriber(cached_status, data)

\* await self.callback(msgtype, data, error): the connection records the
\* call, the facade's _update_status handles it.
Callback(msgtype, data, error) ==
    IF msgtype = SIGNAL_CONNECTION_STATE
    THEN Notify(ws_listening, data, error)
    ELSE /\ data_calls' = data_calls + 1
         /\ last_data' = data
         /\ Merge(data)

\* The callback for a data payload when update() raises: nothing is merged.
CallbackResyncFails(data) ==
    /\ data_calls' = data_calls + 1
    /\ last_data' = data
    /\ UNCHANGED <<cached_status, cached_config, sub_calls, sub_seen>>

\* A branch that returns to the listen loop without sleeping.
SleepSkipped(delay) == UNCHANGED <<nsleeps, retry_delay>>

\* asyncio.sleep(delay) of the listen task.
Sleep(delay) ==
    /\ nsleeps' = nsleeps + 1
    /\ retry_delay' = delay

\* ----------------------------------------------------------- state setter
\* A setter that forgets to clear the stored error reason.
StateSetterKeepsReason(value, reason) ==
    /\ state' = value
    /\ Callback(SIGNAL_CONNECTION_STATE, value, reason)
    /\ error_reason' = reason
    /\ writes' = writes + 1

\* A setter that notifies before it assigns: the callback is handed the
\* state that is being replaced.
StateSetterNotifiesOld(value, reason) ==
    /\ state' = value
    /\ Callback(SIGNAL_CONNECTION_STATE, state, reason)
    /\ error_reason' = None
    /\ writes' = writes + 1

\* state.fset(self, value) with self._error_reason = reason at the call.
StateSetter(value, reason) ==
    /\ state' = value
    /\ Callback(SIGNAL_CONNECTION_STATE, value, reason)
    /\ error_reason' = None
    /\ writes' = writes + 1

\* ---------------------------------------------------------------- backoff
Min(a, b) == IF a < b THEN a ELSE b

\* min(2 ** (failed_attempts - 1) * 30, 300); 2 ** -1 is the float 0.5.
RetryDelay(fa) == IF fa = 0 THEN 15 ELSE Min(2 ^ (fa - 1) * 30, 300)

\* The ceiling test written with >= instead of >.
TooManyRetriesAtCeiling(fa) == fa >= MAX_FAILED_ATTEMPTS

\* if self.failed_attempts > MAX_FAILED_ATTEMPTS
TooManyRetries(fa) == fa > MAX_FAILED_ATTEMPTS

\* ------------------------------------------------ handlers of running()
\* A handler that does not single out status 401.
ResponseErrorReasonNo401(status) == ResponseError500

\* except aiohttp.ClientResponseError
ResponseErrorReason(status) ==
    IF status = 401 THEN ERROR_AUTH_FAILURE ELSE ResponseError500

OnResponseError(status) ==
    /\ StateSetter(STATE_STOPPED, ResponseErrorReason(status))
    /\ pc' = "done"
    /\ UNCHANGED <<failed_attempts, sleepVars>>

\* A retry branch that forgets to count the failure.
OnTransportErrorNoIncrement ==
    IF TooManyRetries(failed_attempts)
    THEN /\ StateSetter(STATE_STOPPED, ERROR_TOO_MANY_RETRIES)
         /\ pc' = "done"
         /\ UNCHANGED <<failed_attempts, sleepVars>>
    ELSE IF state # STATE_STOPPED
    THEN /\ failed_attempts' = failed_attempts
         /\ StateSetter(STATE_DISCONNECTED, error_reason)
         /\ Sleep(RetryDelay(failed_attempts))
         /\ pc' = "backoff"
    ELSE /\ pc' = "done"
         /\ UNCHANGED <<connVars, failed_attempts, sleepVars>>

\* except (aiohttp.ClientConnectionError, asyncio.TimeoutError)
OnTransportError ==
    IF TooManyRetries(failed_attempts)
    THEN /\ StateSetter(STATE_STOPPED, ERROR_TOO_MANY_RETRIES)
         /\ pc' = "done"
         /\ UNCHANGED <<failed_attempts, sleepVars>>
    ELSE IF state # STATE_STOPPED
    THEN /\ failed_attempts' = failed_attempts + 1
         /\ StateSetter(STATE_DISCONNECTED, error_reason)
         /\ Sleep(RetryDelay(failed_attempts))
         /\ pc' = "backoff"
    ELSE /\ pc' = "done"
         /\ UNCHANGED <<connVars, failed_attempts, sleepVars>>

\* A handler that notifies Stopped even when the state is Stopped already.
OnExceptionUnguarded ==
    /\ StateSetter(STATE_STOPPED, UnexpectedError)
    /\ pc' = "done"
    /\ UNCHANGED <<failed_attempts, sleepVars>>

\* except Exception
OnException ==
    IF state # STATE_STOPPED
    THEN /\ StateSetter(STATE_STOPPED, UnexpectedError)
         /\ pc' = "done"
         /\ UNCHANGED <<failed_attempts, sleepVars>>
    ELSE /\ pc' = "done"
         /\ UNCHANGED <<connVars, failed_attempts, sleepVars>>

\* An else clause that treats the end of the stream as a failed attempt.
OnElseCountsFailure ==
    IF state # STATE_STOPPED
    THEN /\ failed_attempts' = failed_attempts + 1
         /\ StateSetter(STATE_DISCONNECTED, error_reason)
         /\ Sleep(RetryDelay(failed_attempts))
         /\ pc' = "grace"
    ELSE /\ pc' = "done"
         /\ UNCHANGED <<connVars, failed_attempts, sleepVars>>

\* An else clause that does not test for Stopped.
OnElseUnguarded ==
    /\ StateSetter(STATE_DISCONNECTED, error_reason)
    /\ Sleep(5)
    /\ pc' = "grace"
    /\ UNCHANGED failed_attempts

\* else: the block was left without an exception
OnElse ==
    IF state # STATE_STOPPED
    THEN /\ StateSetter(STATE_DISCONNECTED, error_reason)
         /\ Sleep(5)
         /\ pc' = "grace"
         /\ UNCHANGED failed_attempts
    ELSE /\ pc' = "done"
         /\ UNCHANGED <<connVars, failed_attempts, sleepVars>>

\* ------------------------------------------------------------ listen task
\* ws_start() and _start_listening(): the listen task and the ticker task
\* are created, the is-listening flag is set.
WsStart ==
    /\ pc = "idle"
    /\ ~ws_listening
    /\ pc' = "created"
    /\ ws_listening' = TRUE
    /\ event' = Ev("ws_start", None)
    /\ UNCHANGED <<state, error_reason, writes, notified, last_notice,
                   stopped_notices, attempt_notices, failed_attempts, client,
                   exiting, sleepVars, attempts, frames, dataVars, pingVars,
                   transport_open, tpc, ticks, closeVars>>

\* running() up to the await of ws_connect.  On a closed session ws_connect
\* raises RuntimeError("Session is closed"): pc "refused".  Such an attempt
\* is the last one of listen(), so cap bounds the attempts on an open
\* session.
EnterRunning(cap) ==
    /\ attempts < cap \/ ~session_open
    /\ attempts' = attempts + 1
    /\ StateSetter(STATE_STARTING, error_reason)
    /\ pc' = IF session_open THEN "handshake" ELSE "refused"

\* listen(): failed_attempts = 0, then the first test of the while loop.
ListenStart(cap) ==
    /\ pc = "created"
    /\ failed_attempts' = 0
    /\ IF state # STATE_STOPPED
       THEN EnterRunning(cap)
       ELSE /\ pc' = "done"
            /\ UNCHANGED <<connVars, attempts>>
    /\ event' = Ev("listen", None)
    /\ UNCHANGED <<client, pingVars, transport_open, exiting, tpc, sleepVars,
                   dataVars, frames, ticks, closeVars>>

\* asyncio.sleep() returns, running() returns, the while loop tests again.
SleepDone(cap) ==
    /\ pc \in {"backoff", "grace"}
    /\ IF state # STATE_STOPPED
       THEN EnterRunning(cap)
       ELSE /\ pc' = "done"
            /\ UNCHANGED <<connVars, attempts>>
    /\ event' = Ev("sleep_done", None)
    /\ UNCHANGED <<failed_attempts, client, pingVars, transport_open, exiting,
                   tpc, sleepVars, dataVars, frames, ticks, closeVars>>

\* A successful handshake that writes Connected without notifying it.
HandshakeOKSilent ==
    /\ pc = "handshake"
    /\ state' = STATE_CONNECTED
    /\ error_reason' = None
    /\ writes' = writes + 1
    /\ failed_attempts' = 0
    /\ client' = now
    /\ transport_open' = session_open
    /\ pc' = "receiving"
    /\ event' = Ev("handshake", "ok")
    /\ UNCHANGED <<notified, last_notice, stopped_notices, attempt_notices,
                   ws_listening, pingVars, exiting, tpc, sleepVars, dataVars,
                   attempts, frames, ticks, closeVars>>

\* A successful handshake that does not reset failed_attempts.
HandshakeOKNoReset ==
    /\ pc = "handshake"
    /\ StateSetter(STATE_CONNECTED, error_reason)
    /\ failed_attempts' = failed_attempts
    /\ client' = now
    /\ transport_open' = session_open
    /\ pc' = "receiving"
    /\ event' = Ev("handshake", "ok")
    /\ UNCHANGED <<pingVars, exiting, tpc, sleepVars, dataVars, attempts,
                   frames, ticks, closeVars>>

\* ws_connect succeeds.
HandshakeOK ==
    /\ pc = "handshake"
    /\ StateSetter(STATE_CONNECTED, error_reason)
    /\ failed_attempts' = 0
    /\ client' = now
    /\ transport_open' = session_open
    /\ pc' = "receiving"
    /\ event' = Ev("handshake", "ok")
    /\ UNCHANGED <<pingVars, exiting, tpc, sleepVars, dataVars, attempts,
                   frames, ticks, closeVars>>

\* ws_connect raises aiohttp.ClientResponseError.
HandshakeResponseError ==
    /\ pc = "handshake"
    /\ \E status \in {401, 500} :
          /\ OnResponseError(status)
          /\ event' = Ev("handshake", IF status = 401 THEN "401" ELSE "500")
    /\ UNCHANGED <<client, pingVars, transport_open, exiting, tpc, attempts,
                   frames, dataVars, ticks, closeVars>>

\* ws_connect raises aiohttp.ClientConnectionError or asyncio.TimeoutError.
HandshakeTransportError ==
    /\ pc = "handshake"
    /\ OnTransportError
    /\ event' = Ev("handshake", "transport")
    /\ UNCHANGED <<client, pingVars, transport_open, exiting, tpc, attempts,
                   frames, dataVars, ticks, closeVars>>

\* ws_connect raises any other exception.
HandshakeException ==
    /\ pc \in {"handshake", "refused"}
    /\ OnException
    /\ event' = Ev("handshake", "exception")
    /\ UNCHANGED <<client, pingVars, transport_open, exiting, tpc, attempts,
                   frames, dataVars, ticks, closeVars>>

\* Leaving the "async with" block closes the transport (a suspension point).
LeaveBlock(how) ==
    /\ pc' = "closing"
    /\ exiting' = how
    /\ transport_open' = FALSE

\* One iteration of "async for message in ws_client" on a text frame.
\* payload: what the frame carries.  outcome: "ok", or what is raised:
\* "json_error" by message.json(); by the callback "exception" (the
\* subscriber fails, after the merge), "transport" (update() raises
\* TimeoutError or ServerTimeoutError) or "resync_error" (update() raises
\* AuthenticationError, ParseJSONError or ContentTypeError).
TextInputs ==
    (Payloads \X {"ok", "exception"})
       \cup (UPDATE_TRIGGERS \X {"transport", "resync_error"})
       \cup {<<"status", "json_error">>}

\* if self.state == STATE_STOPPED: break
StopsBeforeDispatch == state = STATE_STOPPED

RecvText ==
    /\ pc = "receiving"
    /\ frames < MaxFrames
    /\ IF StopsBeforeDispatch
       THEN /\ event' = Ev("text", "unread")
            /\ LeaveBlock("normal")
            /\ UNCHANGED <<dataVars, pingVars, frames>>
       ELSE \E inp \in TextInputs :
          LET payload == inp[1]
              outcome == inp[2]
          IN
          /\ event' = Ev("text", TextArg(payload, outcome))
          /\ frames' = frames + 1
          /\ CASE outcome = "json_error" -> UNCHANGED dataVars
               [] outcome \in {"transport", "resync_error"} ->
                     CallbackResyncFails(payload)
               [] OTHER -> Callback("data", payload, None)
          /\ IF outcome = "ok"
             THEN /\ IF payload = "pong"
                     THEN pong' = now /\ now' = now + 1
                     ELSE UNCHANGED <<pong, now>>
                  /\ UNCHANGED <<ping, pc, exiting, transport_open>>
             ELSE /\ LeaveBlock(IF outcome = "transport"
                                THEN "transport" ELSE "exception")
                  /\ UNCHANGED pingVars
    /\ UNCHANGED <<connVars, failed_attempts, client, tpc, sleepVars,
                   attempts, ticks, closeVars>>

\* A CLOSED or ERROR frame, or the end of the stream: the loop is left.
RecvEnd ==
    /\ pc = "receiving"
    /\ \E kind \in {"closed", "error", "end"} : event' = Ev("frame", kind)
    /\ LeaveBlock("normal")
    /\ UNCHANGED <<connVars, failed_attempts, client, pingVars, tpc,
                   dataVars, sleepVars, attempts, frames, ticks, closeVars>>

\* The block has been left: the except / else clause of running() runs.
BlockLeft ==
    /\ pc = "closing"
    /\ CASE exiting = "normal" -> OnElse
         [] exiting = "transport" -> OnTransportError
         [] OTHER -> OnException
    /\ exiting' = "none"
    /\ event' = Ev("block_left", exiting)
    /\ UNCHANGED <<client, pingVars, transport_open, tpc, attempts, frames,
                   dataVars, ticks, closeVars>>

\* ------------------------------------------------------------------ close
\* A close() that closes the session whoever made it.
OwnsSessionAlways == TRUE

\* The component closes only a session that it created itself.
OwnsSession == ~session_external

\* ws_disconnect(): self._ws_listening = False, then close(): the setter
\* is called with Stopped, the transport and an own session are closed.
Close ==
    /\ closes < MaxCloses
    /\ closes' = closes + 1
    /\ closed_at' = <<pc, state>>
    /\ state' = STATE_STOPPED
    /\ Notify(FALSE, STATE_STOPPED, error_reason)
    /\ error_reason' = None
    /\ writes' = writes + 1
    /\ transport_open' = FALSE
    /\ session_open' = IF OwnsSession THEN FALSE ELSE session_open
    /\ UNCHANGED <<session_external, facadeVars>>
    /\ event' = Ev("close", None)
    /\ UNCHANGED <<listenVars, pingVars, tpc, ticks>>

\* ------------------------------------------------------------ ticker task
\* repeat(): the first test of "while self.ws_state != 'stopped'".
TickerStart ==
    /\ tpc = "idle"
    /\ pc \notin {"idle", "created"}
    /\ tpc' = IF state = STATE_STOPPED THEN "done" ELSE "sleeping"
    /\ event' = Ev("ticker", None)
    /\ UNCHANGED <<connVars, listenVars, pingVars, transport_open, ticks,
                   closeVars>>

\* time_delta < 0 with time_delta a datetime.timedelta.
CompareDelta(pg, pn) == "TypeError"

\* What self._client.send_json(data) can do.
SendOutcomes ==
    IF client = Unset THEN {"other"}
    ELSE IF ~transport_open THEN {"runtime", "other"}
    ELSE {"ok", "type", "value", "runtime", "other"}

\* A keepalive() without the except clauses of TypeError and ValueError.
OnlyLoggedNever(outcome) == FALSE

\* except TypeError / except ValueError: the failure is logged, no more.
OnlyLogged(outcome) == outcome \in {"type", "value"}

\* asyncio.sleep(interval) returns and keepalive() runs; then the while
\* loop of repeat() tests the state again.
Tick(cap) ==
    /\ tpc = "sleeping"
    /\ ticks < cap
    /\ ticks' = ticks + 1
    /\ IF /\ ping # Unset
          /\ pong # Unset
          /\ CompareDelta(ping, pong) = "TypeError"
       THEN /\ tpc' = "crashed"
            /\ event' = Ev("tick", "TypeError")
            /\ UNCHANGED <<connVars, pingVars>>
       ELSE \E outcome \in SendOutcomes :
            /\ event' = Ev("tick", outcome)
            /\ IF outcome = "ok"
               THEN /\ ping' = now
                    /\ now' = now + 1
                    /\ UNCHANGED <<connVars, pong>>
               ELSE IF OnlyLogged(outcome)
               THEN UNCHANGED <<connVars, pingVars>>
               ELSE /\ StateSetter(STATE_DISCONNECTED, error_reason)
                    /\ UNCHANGED pingVars
            /\ tpc' = IF state' = STATE_STOPPED THEN "done" ELSE "sleeping"
    /\ UNCHANGED <<listenVars, transport_open, closeVars>>

\* ---------------------------------------------------------- specification
Next ==
    \/ WsStart
    \/ ListenStart(MaxAttempts)
    \/ SleepDone(MaxAttempts)
    \/ HandshakeOK
    \/ HandshakeResponseError
    \/ HandshakeTransportError
    \/ HandshakeException
    \/ RecvText
    \/ RecvEnd
    \/ BlockLeft
    \/ Close
    \/ TickerStart
    \/ Tick(MaxTicks)

Spec == Init /\ [][Next]_vars

\* What the event loop and the network are bound to do.  A task that is
\* ready runs; asyncio.sleep() returns; a handshake ends, with a connection
\* or with an error; leaving the "async with" block ends.  Once the
\* transport is closed the receive loop is handed the end of the stream.
\* Nothing obliges the device to send a frame or to close an open transport,
\* nor the caller to call ws_start() or ws_disconnect().
ListenTaskStep ==
    \/ ListenStart(MaxAttempts)
    \/ SleepDone(MaxAttempts)
    \/ HandshakeOK
    \/ HandshakeResponseError
    \/ HandshakeTransportError
    \/ HandshakeException
    \/ BlockLeft

TransportClosedStep == ~transport_open /\ RecvEnd

TickerStep == TickerStart \/ Tick(MaxTicks)

SpecLive ==
    /\ Init
    /\ [][Next]_vars
    /\ WF_vars(ListenTaskStep)
    /\ WF_vars(TransportClosedStep)
    /\ WF_vars(TickerStep)

\* The connection driven with a callback that can raise when it is notified
\* Starting.  The setter is called at the top of running(), outside the try
\* statement: the assignment of _state and the call are made, the reset of
\* _error_reason is not, and the exception leaves running() and listen().
StartingRaises(cap) ==
    /\ pc \in {"created", "backoff", "grace"}
    /\ state # STATE_STOPPED
    /\ attempts < cap
    /\ attempts' = attempts + 1
    /\ failed_attempts' = IF pc = "created" THEN 0 ELSE failed_attempts
    /\ state' = STATE_STARTING
    /\ Notify(ws_listening, STATE_STARTING, error_reason)
    /\ writes' = writes + 1
    /\ pc' = "raised"
    /\ event' = Ev("starting", "raises")
    /\ UNCHANGED <<error_reason, client, exiting, sleepVars, frames, dataVars,
                   pingVars, transport_open, tpc, ticks, closeVars>>

NextRaise ==
    \/ Next
    \/ StartingRaises(MaxAttempts)

SpecRaise == Init /\ [][NextRaise]_vars

\* The connection built on a session of its own or on a session that the
\* caller supplied and owns.
InitSession ==
    /\ InitFields
    /\ callback = "function"
    /\ session_external \in BOOLEAN
    /\ websocket = 1
    /\ device = <<EmptyDict, NoVersion>>

NextSession ==
    \/ WsStart
    \/ ListenStart(MaxAttempts)
    \/ SleepDone(MaxAttempts)
    \/ HandshakeOK
    \/ HandshakeResponseError
    \/ HandshakeTransportError
    \/ HandshakeException
    \/ RecvText
    \/ RecvEnd
    \/ BlockLeft
    \/ Close
    \/ TickerStart
    \/ Tick(MaxSessionTicks)

SpecSession == InitSession /\ [][NextSession]_vars

\* Only transport failures: every connection attempt is refused or times
\* out, and nobody calls close().  The event loop runs every ready task, and
\* the handshake and asyncio.sleep() both complete, so the listen task is
\* weakly fair; the caller does start it.
ListenRetryStep ==
    \/ WsStart
    \/ ListenStart(MaxRetryAttempts)
    \/ SleepDone(MaxRetryAttempts)
    \/ HandshakeTransportError

NextRetry ==
    \/ WsStart
    \/ ListenStart(MaxRetryAttempts)
    \/ SleepDone(MaxRetryAttempts)
    \/ HandshakeTransportError
    \/ TickerStart
    \/ Tick(MaxRetryTicks)

SpecRetry == Init /\ [][NextRetry]_vars /\ WF_vars(ListenRetryStep)

\* The state setter alone, driven by arbitrary assignments of the error
\* reason and arbitrary writes of the state.
Reasons == {None, ERROR_AUTH_FAILURE, ERROR_TOO_MANY_RETRIES,
            ERROR_PING_TIMEOUT, UnexpectedError}

\* self._error_reason = <reason>
StoreReason ==
    /\ writes < MaxSetterCalls
    /\ \E r \in Reasons \ {error_reason} :
          /\ error_reason' = r
          /\ event' = Ev("store", r)
    /\ UNCHANGED <<state, writes, notified, last_notice, stopped_notices,
                   attempt_notices, ws_listening, listenVars, pingVars,
                   transport_open, tpc, ticks, closeVars>>

\* await OpenEVSEWebsocket.state.fset(self, value)
SetterCall ==
    /\ writes < MaxSetterCalls
    /\ \E value \in States :
          /\ StateSetter(value, error_reason)
          /\ event' = Ev("set", value)
    /\ UNCHANGED <<listenVars, pingVars, transport_open, tpc, ticks,
                   closeVars>>

NextSetter ==
    \/ StoreReason
    \/ SetterCall

SpecSetter == Init /\ [][NextSetter]_vars

\* The handler _update_status alone: it is called with arbitrary state
\* signals (through the setter) and with arbitrary data payloads.
\* await self.callback("data", payload, None)
DataCall ==
    /\ data_calls < MaxFrames
    /\ \E payload \in Payloads :
          /\ Callback("data", payload, None)
          /\ event' = Ev("data", payload)
    /\ UNCHANGED <<connVars, failed_attempts, client, pc, exiting, sleepVars,
                   attempts, frames, pingVars, transport_open, tpc, ticks,
                   closeVars>>

NextHandler ==
    \/ StoreReason
    \/ SetterCall
    \/ DataCall

SpecHandler == Init /\ [][NextHandler]_vars

\* ------------------------------------------------------------------ facade
HasKey(d, k) == d[k] # Absent

\* A rename that leaves the push name in the payload.
RenamedKeepsWh(data) ==
    IF HasKey(data, "wh")
    THEN [data EXCEPT !["watthour"] = data["wh"]]
    ELSE data

\* if "wh" in keys: data["watthour"] = data.pop("wh")
Renamed(data) ==
    IF HasKey(data, "wh")
    THEN [data EXCEPT !["watthour"] = data["wh"], !["wh"] = Absent]
    ELSE data

\* any(key in keys for key in UPDATE_TRIGGERS)
HasTrigger(data) == \E k \in UPDATE_TRIGGERS : HasKey(data, k)

\* self._status.update(data)
Updated(st, data) ==
    [k \in Keys |-> IF HasKey(data, k) THEN data[k] ELSE st[k]]

\* A handler that merges first and resyncs afterwards.
MergeThenResync(fetched, data) == fetched

\* await self.update(); self._status.update(data): the payload is merged
\* into what the resync left in self._status.
ResyncThenMerge(fetched, data) == Updated(fetched, data)

\* update(): the URLs it fetches, decided before the first request.
Urls(listening) ==
    IF listening THEN <<"config">> ELSE <<"status", "config">>

\* An update() that makes a connection object at every call.
WebsocketAfterAlways(ws) == ws + 1

\* if not self.websocket: self.websocket = OpenEVSEWebsocket(...)
WebsocketAfter(ws) == IF ws = NoObject THEN ws + 1 ELSE ws

\* What process_request() raises: status 401, a timeout, status 400.
FetchFailures == {"AuthenticationError", "TimeoutError", "ParseJSONError"}

\* The payloads pushed to the facade under SpecFacade: the energy counter
\* alone, a reading alone, and each of them with a trigger key.
FacadePayloads ==
    {[EmptyDict EXCEPT !["wh"] = MaxVal],
     [EmptyDict EXCEPT !["temp"] = MaxVal],
     [EmptyDict EXCEPT !["wh"] = 1, !["config_version"] = 1],
     [EmptyDict EXCEPT !["temp"] = 1, !["config_version"] = MaxVal]}

\* update() as far as its first await: the application calls it.
UpdateCall(cap) ==
    /\ upd["user"] = <<>>
    /\ upd_calls < cap
    /\ upd' = [upd EXCEPT !["user"] = Urls(ws_listening)]
    /\ upd_calls' = upd_calls + 1
    /\ entry' = <<status_dict, config_dict, ws_listening, TRUE>>
    /\ event' = Ev("update", "user")
    /\ UNCHANGED <<connVars, listenVars, pingVars, transport_open, tpc,
                   callback,
                   ticks, closes, closed_at, session_external, session_open,
                   status_dict, config_dict, websocket, pending, starts,
                   task_pairs, op_request, device, refreshed>>

\* The update() of the application that is running repeats its last
\* successful one: nothing has touched the caches or the device since, and
\* the flag was the same when the two began.
Repeats == refreshed # Stale /\ refreshed[4] = entry[3]

\* process_request() of caller c returns the reply of the device: update()
\* stores it and fetches the next URL; after the last one it makes the
\* connection object if there is none, and the handler goes on to merge its
\* payload and to call the subscriber.
FetchOK(c) ==
    LET url == Head(upd[c])
        done == Tail(upd[c]) = <<>>
        st == IF url = "status" THEN device[1] ELSE status_dict
        cf == IF url = "config" THEN device[2] ELSE config_dict
        merges == c = "handler" /\ done
        est == IF url = "status" THEN device[1] ELSE entry[1]
        ecf == IF url = "config" THEN device[2] ELSE entry[2]
    IN  /\ upd' = [upd EXCEPT ![c] = Tail(@)]
        /\ status_dict' = IF merges THEN ResyncThenMerge(st, pending) ELSE st
        /\ config_dict' = cf
        /\ websocket' = IF done THEN WebsocketAfter(websocket) ELSE websocket
        /\ op_request' = IF c = "op" /\ done THEN NoRequest ELSE op_request
        /\ pending' = IF merges THEN EmptyDict ELSE pending
        /\ IF merges THEN Subscriber(st, status_dict')
           ELSE UNCHANGED <<sub_calls, sub_seen>>
        /\ entry' = IF c = "user" THEN entry
                    ELSE <<IF merges THEN ResyncThenMerge(est, pending)
                           ELSE est, ecf, entry[3], FALSE>>
        /\ refreshed' =
              IF c # "user" \/ (done /\ ~entry[4]) THEN Stale
              ELSE IF done
              THEN <<status_dict', config_dict', websocket', entry[3],
                     IF Repeats THEN refreshed[5] + 1 ELSE 1>>
              ELSE refreshed
        /\ event' = Ev("fetch", TextArg(c, IF done THEN "done" ELSE "ok"))

\* process_request() of caller c raises: update() is left by the exception,
\* and so is the handler that awaited it.
FetchFails(c, failure) ==
    /\ upd' = [upd EXCEPT ![c] = <<>>]
    /\ pending' = IF c = "handler" THEN EmptyDict ELSE pending
    /\ op_request' = IF c = "op" THEN NoRequest ELSE op_request
    /\ refreshed' = IF c = "user" THEN Stale ELSE refreshed
    /\ event' = Ev("fetch", TextArg(c, failure))
    /\ UNCHANGED <<status_dict, config_dict, websocket, entry, sub_calls,
                   sub_seen>>

\* The request that update() of caller c awaits ends.
FetchDone(c) ==
    /\ upd[c] # <<>>
    /\ \/ FetchOK(c)
       \/ \E failure \in FetchFailures : FetchFails(c, failure)
    /\ UNCHANGED <<connVars, failed_attempts, client, pc, exiting, sleepVars,
                   attempts, frames, data_calls, last_data, cached_status,
                   cached_config, pingVars, transport_open, tpc, ticks,
                   callback,
                   closes, closed_at, session_external, session_open,
                   upd_calls, starts, task_pairs, device>>

\* _update_status("data", payload, None) as far as its first await: the
\* rename, then the resync for a payload with a trigger key, or else the
\* merge and the call of the subscriber at once.  The connection hands over
\* one payload at a time, and only from the receive loop, which it enters
\* Connected and in which the keepalive can set it Disconnected.
DataReceived(payloads, cap) ==
    /\ websocket # NoObject
    /\ state \in {STATE_CONNECTED, STATE_DISCONNECTED}
    /\ pending = EmptyDict
    /\ upd["handler"] = <<>>
    /\ data_calls < cap
    /\ data_calls' = data_calls + 1
    /\ \E payload \in payloads :
          LET data == Renamed(payload)
          IN  /\ last_data' = payload
              /\ IF HasTrigger(data)
                 THEN /\ upd' = [upd EXCEPT !["handler"] =
                                                      Urls(ws_listening)]
                      /\ pending' = data
                      /\ event' = Ev("data", "resync")
                      /\ entry' = [entry EXCEPT ![4] = FALSE]
                      /\ UNCHANGED <<status_dict, sub_calls, sub_seen>>
                 ELSE /\ status_dict' = Updated(status_dict, data)
                      /\ entry' = <<Updated(entry[1], data), entry[2],
                                    entry[3], FALSE>>
                      /\ Subscriber(status_dict, status_dict')
                      /\ event' = Ev("data", "merged")
                      /\ UNCHANGED <<upd, pending>>
    /\ refreshed' = Stale
    /\ UNCHANGED <<connVars, failed_attempts, client, pc, exiting, sleepVars,
                   attempts, frames, cached_status, cached_config, pingVars,
                   transport_open, tpc, ticks, closes,
                   callback,
                   closed_at, session_external, session_open, config_dict,
                   websocket, upd_calls, starts, task_pairs, op_request,
                   device>>

\* What the device reports: <<reply of /status, reply of /config>>.
Devices ==
    {<<[EmptyDict EXCEPT !["watthour"] = 1, !["temp"] = 1], 2>>,
     <<[EmptyDict EXCEPT !["watthour"] = MaxVal], 4>>}

\* The device comes to report something else.
DeviceChange ==
    /\ \E d \in Devices \ {device} : device' = d
    /\ refreshed' = Stale
    /\ entry' = [entry EXCEPT ![4] = FALSE]
    /\ event' = Ev("device", None)
    /\ UNCHANGED <<connVars, listenVars, pingVars, transport_open, tpc,
                   callback,
                   ticks, closes, closed_at, session_external, session_open,
                   status_dict, config_dict, websocket, upd, pending,
                   upd_calls, starts, task_pairs, op_request>>

\* The connection object, once made, signals to the facade that it is
\* Connected or Disconnected.
FacadeSignal(cap) ==
    /\ websocket # NoObject
    /\ writes < cap
    /\ \E value \in {STATE_CONNECTED, STATE_DISCONNECTED} :
          /\ StateSetter(value, error_reason)
          /\ event' = Ev("set", value)
    /\ UNCHANGED <<listenVars, pingVars, transport_open, tpc, ticks,
                   closeVars>>

\* A ws_start() that starts listening whatever the flag says.
MayStartAlways(listening) == TRUE

\* ws_start(): if self._ws_listening: raise AlreadyListening
MayStart(listening) == ~listening

\* ws_start(), then _start_listening(): the listen task and the ticker are
\* made and the flag is set.
WsStartCall(cap) ==
    /\ websocket # NoObject
    /\ starts < cap
    /\ starts' = starts + 1
    /\ IF MayStart(ws_listening)
       THEN /\ task_pairs' = task_pairs + 1
            /\ ws_listening' = TRUE
            /\ event' = Ev("ws_start", "started")
       ELSE /\ event' = Ev("ws_start", "AlreadyListening")
            /\ UNCHANGED <<task_pairs, ws_listening>>
    /\ UNCHANGED <<state, error_reason, writes, notified, last_notice,
                   stopped_notices, attempt_notices, listenVars, pingVars,
                   transport_open, tpc, ticks, closes, closed_at,
                   callback,
                   session_external, session_open, status_dict, config_dict,
                   websocket, upd, pending, upd_calls, op_request, device,
                   entry, refreshed>>

\* The facade from its construction on: the application calls update() and
\* ws_start(), the device answers the requests and changes, the connection
\* signals states and hands over payloads.
InitFacade ==
    /\ InitFields
    /\ callback = "function"
    /\ session_external = FALSE
    /\ websocket = NoObject
    /\ device \in Devices

NextFacade ==
    \/ UpdateCall(MaxUpdates)
    \/ FetchDone("user")
    \/ FetchDone("handler")
    \/ DataReceived(FacadePayloads, MaxPayloads)
    \/ DeviceChange
    \/ FacadeSignal(MaxSignals)

SpecFacade == InitFacade /\ [][NextFacade]_vars

\* ws_start() alone, after update() has made the connection object: the
\* application calls it at any time, the connection signals any state.
NextStart ==
    \/ WsStartCall(MaxStarts)
    \/ SetterCall

SpecStart == Init /\ [][NextStart]_vars

\* The listen task and the ticker that the model follows are at an end, or
\* have not been made.
ListenOver == pc \in {"idle", "done"}
TickerOver == tpc \in {"idle", "done", "crashed"}

\* ws_start() at any time of the life of the connection.  The tasks made by
\* _start_listening() are followed from their creation if those of the pair
\* before are at an end; a pair made while the listen task before it still
\* runs is counted, and its tasks wait to be scheduled.
WsStartListen(cap) ==
    /\ websocket # NoObject
    /\ starts < cap
    /\ starts' = starts + 1
    /\ IF MayStart(ws_listening)
       THEN /\ task_pairs' = task_pairs + 1
            /\ ws_listening' = TRUE
            /\ pc' = IF ListenOver THEN "created" ELSE pc
            /\ tpc' = IF ListenOver /\ TickerOver THEN "idle" ELSE tpc
            /\ event' = Ev("ws_start", "started")
       ELSE /\ event' = Ev("ws_start", "AlreadyListening")
            /\ UNCHANGED <<task_pairs, ws_listening, pc, tpc>>
    /\ UNCHANGED <<state, error_reason, writes, notified, last_notice,
                   stopped_notices, attempt_notices, failed_attempts, client,
                   exiting, sleepVars, attempts, frames, dataVars, pingVars,
                   transport_open, ticks, closes, closed_at,
                   session_external, session_open, status_dict, config_dict,
                   websocket, upd, pending, upd_calls, op_request, device,
                   callback, entry, refreshed>>

\* The connection with ws_start() called at any time, and more than once.
NextRestart ==
    \/ WsStartListen(MaxStarts)
    \/ ListenStart(MaxAttempts)
    \/ SleepDone(MaxAttempts)
    \/ HandshakeOK
    \/ HandshakeResponseError
    \/ HandshakeTransportError
    \/ HandshakeException
    \/ RecvText
    \/ RecvEnd
    \/ BlockLeft
    \/ Close
    \/ TickerStart
    \/ Tick(MaxTicks)

SpecRestart == Init /\ [][NextRestart]_vars

\* Every object with the key "wh" that the device can push.
WhPayloads == {d \in Dicts : HasKey(d, "wh")}

\* The handler of data payloads alone, after update() has made the
\* connection object: the connection signals states and hands over any
\* payload that holds the energy counter (as many signals as payloads),
\* the device answers the requests of the resync.
InitMerge ==
    /\ InitFields
    /\ callback = "function"
    /\ session_external = FALSE
    /\ websocket = 1
    /\ device \in Devices

NextMerge ==
    \/ FacadeSignal(MaxPayloads)
    \/ DataReceived(WhPayloads, MaxPayloads)
    \/ FetchDone("handler")

SpecMerge == InitMerge /\ [][NextMerge]_vars

\* The handler of data payloads with any subscriber or none: the
\* connection signals states and hands over payloads, the device answers
\* the requests of the resync.
InitSubscriber ==
    /\ InitFields
    /\ callback \in Subscribers
    /\ session_external = FALSE
    /\ websocket = 1
    /\ device \in Devices

NextSubscriber ==
    \/ FacadeSignal(MaxSignals)
    \/ DataReceived(FacadePayloads, MaxSignals)
    \/ FetchDone("handler")

SpecSubscriber == InitSubscriber /\ [][NextSubscriber]_vars

\* ------------------------------------------------ version-gated operations
GatedOps ==
    {"divert_mode", "grid_voltage", "self_production", "get_override",
     "set_override", "clear_override", "soc", "make_claim", "release_claim",
     "list_claims", "set_led_brightness", "get_limit", "set_limit",
     "clear_limit"}

\* The release each operation passes to _version_check: "2.9.1", "4.0.1",
\* "5.0.0" or "4.1.0".
MinVersion(op) ==
    IF op \in {"divert_mode", "grid_voltage", "self_production"} THEN 2
    ELSE IF op \in {"get_override", "set_override", "clear_override"} THEN 3
    ELSE IF op \in {"get_limit", "set_limit", "clear_limit"} THEN 5
    ELSE 4

\* A check that every firmware passes.
VersionCheckAlways(config, min) == TRUE

\* _version_check(min_version): False without a "version" key; a "master"
\* build is compared as "dev", which is above every release; a release is
\* compared with the cutoff.
VersionCheck(config, min) ==
    IF config = NoVersion THEN FALSE
    ELSE IF config = Master THEN TRUE
    ELSE config >= min

\* The method of the first request of the operation: set_override and
\* set_limit begin with get_override() and get_limit().
FirstMethod(op) ==
    IF op \in {"get_override", "set_override", "list_claims", "get_limit",
               "set_limit"} THEN "get"
    ELSE IF op \in {"clear_override", "release_claim", "clear_limit"}
    THEN "delete"
    ELSE "post"

\* The operations that can end before any request although the firmware is
\* recent enough: nothing to send, an invalid argument, no "divert_enabled".
EndsEarly ==
    {"divert_mode", "grid_voltage", "self_production", "soc", "make_claim"}

\* A version-gated operation as far as its first await: the version check,
\* then the checks of the arguments, then the first request.
GatedOp ==
    /\ op_request = NoRequest
    /\ upd["op"] = <<>>
    /\ \E op \in GatedOps :
          IF ~VersionCheck(config_dict, MinVersion(op))
          THEN /\ event' = Ev(op, "UnsupportedFeature")
               /\ UNCHANGED op_request
          ELSE \/ /\ op_request' = <<op, FirstMethod(op)>>
                  /\ event' = Ev(op, "request")
               \/ /\ op \in EndsEarly
                  /\ event' = Ev(op, "ends_early")
                  /\ UNCHANGED op_request
    /\ UNCHANGED <<connVars, listenVars, pingVars, transport_open, tpc,
                   callback,
                   ticks, closes, closed_at, session_external, session_open,
                   status_dict, config_dict, websocket, upd, pending,
                   upd_calls, starts, task_pairs, entry, device, refreshed>>

\* The request of the operation ends: with an exception; with a reply, after
\* which set_override and set_limit check their arguments and post; or, for
\* a POST, with a reply that holds "config_version", for which
\* process_request() runs update() before it returns.
OpReturns ==
    /\ op_request # NoRequest
    /\ upd["op"] = <<>>
    /\ LET op == op_request[1]
           method == op_request[2]
       IN  \/ /\ \E failure \in FetchFailures : event' = Ev(op, failure)
              /\ op_request' = NoRequest
              /\ UNCHANGED upd
           \/ /\ method = "get" /\ op \in {"set_override", "set_limit"}
              /\ \/ /\ op_request' = <<op, "post">>
                    /\ event' = Ev(op, "request")
                 \/ /\ op_request' = NoRequest
                    /\ event' = Ev(op, "ends_early")
              /\ UNCHANGED upd
           \/ /\ ~(method = "get" /\ op \in {"set_override", "set_limit"})
              /\ op_request' = NoRequest
              /\ event' = Ev(op, "returned")
              /\ UNCHANGED upd
           \/ /\ method = "post"
              /\ upd' = [upd EXCEPT !["op"] = Urls(ws_listening)]
              /\ event' = Ev(op, "config_version")
              /\ UNCHANGED op_request
    /\ UNCHANGED <<connVars, listenVars, pingVars, transport_open, tpc,
                   callback,
                   ticks, closes, closed_at, session_external, session_open,
                   status_dict, config_dict, websocket, pending, upd_calls,
                   starts, task_pairs, entry, device, refreshed>>

\* What the device reports under SpecGate: any firmware.
GateDevices ==
    {<<[EmptyDict EXCEPT !["watthour"] = 1], v>> : v \in Versions}

\* The facade from its construction on, with a device of any firmware: the
\* application calls update() and the version-gated operations.
InitGate ==
    /\ InitFields
    /\ callback = "function"
    /\ session_external = FALSE
    /\ websocket = NoObject
    /\ device \in GateDevices

NextGate ==
    \/ UpdateCall(MaxUpdates)
    \/ FetchDone("user")
    \/ GatedOp
    \/ OpReturns
    \/ FetchDone("op")

SpecGate == InitGate /\ [][NextGate]_vars

\* ---------------------------------------------------------------- helpers
\* The step handles a transport failure (refused, reset, timeout).
TransportFailureStep ==
    /\ event'.op \in {"handshake", "block_left"}
    /\ event'.arg = "transport"

\* The step handles an unexpected exception.
ExceptionStep ==
    /\ event'.op \in {"handshake", "block_left"}
    /\ event'.arg = "exception"

\* The step delivers exactly one state notification, (value, reason).
Notifies(value, reason) ==
    /\ notified' = notified + 1
    /\ last_notice' = <<value, reason>>

\* The state that the listen task itself wrote last, read off its position.
LastListenWrite ==
    CASE pc \in {"idle", "created"} -> None
      [] pc \in {"handshake", "refused"} -> STATE_STARTING
      [] pc \in {"receiving", "closing"} -> STATE_CONNECTED
      [] pc \in {"backoff", "grace"} -> STATE_DISCONNECTED
      [] OTHER -> STATE_STOPPED

\* ------------------------------------------------------------------ claims

\* C1: once the connection state is Stopped it stays Stopped: no write of
\* Starting, Connected or Disconnected follows a write of Stopped.
C1_StoppedIsTerminal ==
    [][state = STATE_STOPPED => state' = STATE_STOPPED]_vars

\* C2 (as stated): every state change follows the documented graph
\* unset -> Starting; Starting -> Connected | Stopped;
\* Connected -> Disconnected | Stopped; Disconnected -> Starting;
\* the only other change is close() moving the state to Stopped.
DocumentedGraph ==
    { <<None, STATE_STARTING>>,
      <<STATE_STARTING, STATE_CONNECTED>>,
      <<STATE_STARTING, STATE_STOPPED>>,
      <<STATE_CONNECTED, STATE_DISCONNECTED>>,
      <<STATE_CONNECTED, STATE_STOPPED>>,
      <<STATE_DISCONNECTED, STATE_STARTING>> }

ListenGraph == DocumentedGraph \cup { <<STATE_STARTING, STATE_DISCONNECTED>> }

C3_SetterNotifiesOnce ==
    [][/\ writes' # writes =>
            /\ writes' = writes + 1
            /\ state' = event'.arg
            /\ Notifies(event'.arg, error_reason)
            /\ error_reason' = None
            /\ UNCHANGED dataVars
       /\ writes' = writes =>
            UNCHANGED <<state, notified, last_notice, dataVars>>]_vars

C3_Witness ==
    /\ writes = 2
    /\ notified = 2
    /\ event.op = "set"
    /\ last_notice = <<state, ERROR_AUTH_FAILURE>>
    /\ error_reason = None

\* C4: the delay slept after the n-th consecutive retryable failure is
\* min(2^(n-1)*30, 300) (30, 60, 120, 240, 300, ...), each such failure adds
\* exactly one to failed_attempts, and the delays never decrease and never
\* exceed 300.
ClaimedDelay(n) == Min(2 ^ (n - 1) * 30, 300)

C4_BackoffDelays ==
    [][TransportFailureStep /\ pc' = "backoff" =>
          /\ failed_attempts' = failed_attempts + 1
          /\ nsleeps' = nsleeps + 1
          /\ retry_delay' = ClaimedDelay(failed_attempts')
          /\ retry_delay' <= 300
          /\ failed_attempts > 0 => retry_delay <= retry_delay']_vars

\* C5 (as stated): a transport failure with failed_attempts equal to
\* MAX_FAILED_ATTEMPTS goes directly to Stopped with reason 'Too many
\* retries': no increment, no Disconnected notification, no delay.
C5_StopsAtCeiling ==
    [][TransportFailureStep /\ failed_attempts = MAX_FAILED_ATTEMPTS =>
          /\ Notifies(STATE_STOPPED, ERROR_TOO_MANY_RETRIES)
          /\ state' = STATE_STOPPED
          /\ failed_attempts' = failed_attempts
          /\ nsleeps' = nsleeps]_vars

\* C5 (amended): a transport failure with failed_attempts greater than
\* MAX_FAILED_ATTEMPTS (6, the seventh consecutive failure) goes directly
\* to Stopped with reason 'Too many retries': no increment, no Disconnected
\* notification, no delay; with failed_attempts equal to MAX_FAILED_ATTEMPTS
\* and the state not Stopped the failure is still retried (Disconnected,
\* failed_attempts 6, delay 300).
C5_StopsAboveCeiling ==
    [][TransportFailureStep =>
          /\ failed_attempts > MAX_FAILED_ATTEMPTS =>
                /\ Notifies(STATE_STOPPED, ERROR_TOO_MANY_RETRIES)
                /\ state' = STATE_STOPPED
                /\ failed_attempts' = failed_attempts
                /\ nsleeps' = nsleeps
                /\ pc' = "done"
          /\ (failed_attempts = MAX_FAILED_ATTEMPTS
                 /\ state # STATE_STOPPED) =>
                /\ Notifies(STATE_DISCONNECTED, None)
                /\ state' = STATE_DISCONNECTED
                /\ failed_attempts' = MAX_FAILED_ATTEMPTS + 1
                /\ nsleeps' = nsleeps + 1
                /\ retry_delay' = 300
                /\ pc' = "backoff"]_vars

C5_Witness ==
    /\ event = Ev("handshake", "transport")
    /\ failed_attempts = MAX_FAILED_ATTEMPTS + 1
    /\ state = STATE_STOPPED
    /\ last_notice = <<STATE_STOPPED, ERROR_TOO_MANY_RETRIES>>
    /\ nsleeps = MAX_FAILED_ATTEMPTS + 1
    /\ retry_delay = 300
    /\ pc = "done"

\* C6: when every connection attempt fails with a transport error, listen()
\* terminates after a bounded number of attempts: the state becomes Stopped
\* with reason 'Too many retries', exactly one Stopped notification is
\* delivered, and no further connection attempt is made.
C6_RetriesTerminate ==
    /\ <>[](/\ pc = "done"
            /\ attempts = MAX_FAILED_ATTEMPTS + 2
            /\ stopped_notices = 1)
    /\ [][pc # "done" /\ pc' = "done" =>
             /\ state' = STATE_STOPPED
             /\ Notifies(STATE_STOPPED, ERROR_TOO_MANY_RETRIES)
             /\ stopped_notices' = 1]_vars
    /\ [][pc = "done" => pc' = "done" /\ attempts' = attempts]_vars

C6_Witness ==
    /\ pc = "done"
    /\ state = STATE_STOPPED
    /\ attempts = MAX_FAILED_ATTEMPTS + 2
    /\ last_notice = <<STATE_STOPPED, ERROR_TOO_MANY_RETRIES>>
    /\ stopped_notices = 1

\* C7: failed_attempts is 0 on entry to listen(), is reset to 0 by every
\* successful handshake, grows by one with every retried failure and is
\* changed by nothing else, so it counts the consecutive retried failures
\* since the last Connected state; a first failure (failed_attempts = 0)
\* always sleeps the first backoff delay.
C7_FailedAttemptsCounts ==
    [][/\ event'.op = "listen" => failed_attempts' = 0
       /\ (event'.op = "handshake" /\ event'.arg = "ok") =>
             failed_attempts' = 0 /\ state' = STATE_CONNECTED
       /\ (TransportFailureStep /\ pc' = "backoff") =>
             /\ failed_attempts' = failed_attempts + 1
             /\ failed_attempts = 0 => retry_delay' = RetryDelay(0)
       /\ ~ \/ event'.op = "listen"
            \/ event'.op = "handshake" /\ event'.arg = "ok"
            \/ TransportFailureStep /\ pc' = "backoff"
          => failed_attempts' = failed_attempts]_vars

C7_Witness ==
    /\ event = Ev("block_left", "transport")
    /\ attempts = 2
    /\ nsleeps = 2
    /\ retry_delay = RetryDelay(0)
    /\ failed_attempts = 1
    /\ pc = "backoff"

\* C8: a 401 response error raised by the handshake ends the connection in
\* Stopped: one Stopped notification carrying 'Authorization failure' (and
\* no second one at any time), failed_attempts unchanged, no delay slept,
\* and listen() returns without another attempt.
C8_AuthFailureStops ==
    /\ [][(event'.op = "handshake" /\ event'.arg = "401") =>
             /\ state' = STATE_STOPPED
             /\ Notifies(STATE_STOPPED, ERROR_AUTH_FAILURE)
             /\ failed_attempts' = failed_attempts
             /\ nsleeps' = nsleeps
             /\ pc' = "done"]_vars
    /\ [][(notified' # notified /\ last_notice'[2] = ERROR_AUTH_FAILURE) =>
             event'.op = "handshake" /\ event'.arg = "401"]_vars
    /\ [][pc = "done" => pc' = "done" /\ attempts' = attempts]_vars

C8_Witness ==
    /\ event = Ev("handshake", "401")
    /\ notified = 2
    /\ last_notice = <<STATE_STOPPED, ERROR_AUTH_FAILURE>>
    /\ stopped_notices = 1
    /\ state = STATE_STOPPED
    /\ pc = "done"

\* C9: a handshake response error other than 401, and any unexpected
\* exception raised while connecting or dispatching frames, moves the
\* connection to Stopped with the error object as the reason and without a
\* retry; an unexpected exception caught while the state is already Stopped
\* emits no notification.
C9_UnexpectedErrorsStop ==
    /\ [][(event'.op = "handshake" /\ event'.arg = "500") =>
             /\ state' = STATE_STOPPED
             /\ Notifies(STATE_STOPPED, ResponseError500)
             /\ nsleeps' = nsleeps
             /\ pc' = "done"]_vars
    /\ [][ExceptionStep =>
             /\ state # STATE_STOPPED =>
                   Notifies(STATE_STOPPED, UnexpectedError)
             /\ state = STATE_STOPPED =>
                   UNCHANGED <<notified, last_notice, stopped_notices>>
             /\ state' = STATE_STOPPED
             /\ nsleeps' = nsleeps
             /\ pc' = "done"]_vars
    /\ [][pc = "done" => pc' = "done" /\ attempts' = attempts]_vars

C9_Witness ==
    /\ event = Ev("block_left", "exception")
    /\ state = STATE_STOPPED
    /\ pc = "done"
    /\ data_calls = 1
    /\ notified = 3
    /\ last_notice = <<STATE_STOPPED, UnexpectedError>>

\* C10: keepalive() called with both timestamps set and the pong earlier
\* than the ping notifies Disconnected with reason 'No pong reply'; called
\* with the pong not earlier than the ping, or with a timestamp unset, it
\* sends the ping (when the send succeeds it records the time of the ping)
\* and leaves the connection state unchanged.
C10_KeepalivePongCheck ==
    [][event'.op = "tick" =>
          IF ping # Unset /\ pong # Unset /\ pong < ping
          THEN Notifies(STATE_DISCONNECTED, ERROR_PING_TIMEOUT)
          ELSE (client # Unset /\ transport_open) =>
                  /\ event'.arg \in {"ok", "type", "value", "runtime", "other"}
                  /\ event'.arg = "ok" => ping' = now /\ state' = state]_vars

\* C11: after keepalive() has run with the pong older than the ping while
\* the receive loop waits for a frame, the listen loop eventually leaves the
\* receive loop to reconnect (the step that leads to Disconnected and then
\* to Starting), even if the old transport delivers no further frame, close
\* or error: it does not stay blocked on the silent transport forever.
StalePongTick ==
    /\ event.op = "tick"
    /\ event.arg # "ok"
    /\ ping # Unset
    /\ pong # Unset
    /\ pong < ping

C11_PongTimeoutReconnects ==
    (StalePongTick /\ pc = "receiving") ~> (pc # "receiving")

\* C12: when the send of the keepalive ping fails, keepalive() does not
\* raise and _ping keeps its value; a TypeError or ValueError changes
\* neither the state nor anything the callback has seen; a RuntimeError or
\* any other exception sets the state to Disconnected and notifies it once.
SendFailures == {"type", "value", "runtime", "other"}

C12_SendFailureClassified ==
    [][(event'.op = "tick" /\ event'.arg \in SendFailures) =>
          /\ tpc' # "crashed"
          /\ ping' = ping
          /\ event'.arg \in {"type", "value"} =>
                UNCHANGED <<state, notified, last_notice, ws_listening>>
          /\ event'.arg \in {"runtime", "other"} =>
                /\ state' = STATE_DISCONNECTED
                /\ Notifies(STATE_DISCONNECTED, None)]_vars

C12_Witness ==
    /\ event = Ev("tick", "value")
    /\ state = STATE_CONNECTED
    /\ last_notice = <<STATE_CONNECTED, None>>
    /\ ping = Unset
    /\ tpc = "sleeping"

\* The step reads a text frame with a JSON payload and the receive loop
\* does not find the state Stopped.
DispatchStep ==
    /\ event'.op = "text"
    /\ event'.arg \notin {"unread", TextArg("status", "json_error")}

\* The payload of the frame read by the step.
FramePayload(p) ==
    \E o \in {"ok", "exception", "transport", "resync_error"} :
       event'.arg = TextArg(p, o)

\* C13: each text frame with a JSON payload that is read while the state is
\* not Stopped makes exactly one callback call ("data", payload, None), and
\* no other step makes one; when it is made the callback has been notified
\* Starting and then Connected for the current attempt, and the step
\* notifies no state.
C13_FrameDeliveredOnce ==
    [][/\ DispatchStep =>
             /\ data_calls' = data_calls + 1
             /\ FramePayload(last_data')
             /\ attempt_notices = <<STATE_STARTING, STATE_CONNECTED>>
             /\ UNCHANGED <<notified, last_notice, attempt_notices>>
       /\ ~DispatchStep => UNCHANGED <<data_calls, last_data>>]_vars

C13_Witness ==
    /\ event = Ev("text", TextArg("status", "ok"))
    /\ data_calls = 1
    /\ last_data = "status"
    /\ cached_status = "status"
    /\ attempt_notices = <<STATE_STARTING, STATE_CONNECTED>>
    /\ notified = 2
    /\ state = STATE_CONNECTED

\* C14: with the receive loop, keepalive() and close() interleaved, the
\* k-th state notification is made by the k-th state write and carries the
\* value written, so the state notified last is the state held; a data
\* callback is made for the frame just read, before the next frame is
\* read, so the data callbacks follow the order of arrival of the frames.
C14_NotificationOrder ==
    /\ [](notified = writes)
    /\ [](notified > 0 => last_notice[1] = state)
    /\ [][writes' # writes =>
             /\ writes' = writes + 1
             /\ notified' = notified + 1
             /\ last_notice'[1] = state']_vars
    /\ [][data_calls' # data_calls =>
             /\ data_calls' = data_calls + 1
             /\ frames' = frames + 1
             /\ FramePayload(last_data')]_vars

C14_Witness ==
    /\ event = Ev("close", None)
    /\ closed_at = <<"receiving", STATE_DISCONNECTED>>
    /\ ticks = 1
    /\ data_calls = 2
    /\ frames = 2
    /\ last_data = "pong"
    /\ writes = 4
    /\ notified = 4
    /\ last_notice = <<STATE_STOPPED, None>>
    /\ state = STATE_STOPPED

\* C15: once close() has set the state to Stopped while the receive loop
\* is running, no frame read after that is delivered to the callback: the
\* loop tests the state before it dispatches a frame and is left at its
\* next iteration.
C15_NoDispatchAfterStop ==
    [][closed_at[1] = "receiving" =>
          /\ UNCHANGED <<data_calls, last_data>>
          /\ event'.op = "text" => pc' = "closing"]_vars

\* C16: close() called on a Connected connection whose receive loop waits
\* for the next frame notifies Stopped once, with no error reason, and the
\* callback is called with nothing after that: no Disconnected, no
\* Starting, no data.
C16_CloseIsQuiet ==
    /\ [][(event'.op = "close" /\ pc = "receiving"
              /\ state = STATE_CONNECTED) =>
             /\ Notifies(STATE_STOPPED, None)
             /\ stopped_notices' = stopped_notices + 1]_vars
    /\ [][(closed_at = <<"receiving", STATE_CONNECTED>>
              /\ event'.op # "close") =>
             UNCHANGED <<notified, last_notice, stopped_notices, data_calls,
                         last_data>>]_vars

\* close() was called while the listen task was suspended.
ClosedWhileListening ==
    closed_at[1] \in {"handshake", "receiving", "closing", "backoff", "grace"}

\* C17: after close() (ws_disconnect()) the listen task ends and starts no
\* other connection attempt, wherever it was suspended when close() ran: in
\* the handshake, waiting for a frame, leaving the connection block, in a
\* backoff sleep or in the 5-second sleep.
ListenEndsAfterClose == ClosedWhileListening ~> (pc = "done")

C17_CloseEndsListen ==
    /\ ListenEndsAfterClose
    /\ [][ClosedWhileListening => attempts' = attempts]_vars

C19_ListenNeverRaises ==
    /\ [](pc # "raised")
    /\ [][event'.op = "sleep_done" =>
             state \in {STATE_DISCONNECTED, STATE_STOPPED}]_vars
    /\ [][(pc \in {"handshake", "refused", "closing"} /\ pc' = "done") =>
             state' \in {STATE_DISCONNECTED, STATE_STOPPED}]_vars

\* C20: the handler maps a connection-state signal to the is-listening
\* flag: Connected sets it, Disconnected clears it, Stopped with an error
\* clears it, Starting and Stopped without an error leave it as it was; a
\* state signal changes neither the cached status nor the cached config and
\* does not call the subscriber.
C20_StateSignalsSetListening ==
    [][notified' # notified =>
          LET data == last_notice'[1]
              error == last_notice'[2]
          IN
          /\ data = STATE_CONNECTED => ws_listening'
          /\ data = STATE_DISCONNECTED => ~ws_listening'
          /\ (data = STATE_STOPPED /\ error # None) => ~ws_listening'
          /\ (data = STATE_STARTING \/ (data = STATE_STOPPED /\ error = None))
                => ws_listening' = ws_listening
          /\ UNCHANGED <<cached_status, cached_config, sub_calls>>]_vars

C20_Witness ==
    /\ event = Ev("set", STATE_STOPPED)
    /\ last_notice = <<STATE_STOPPED, None>>
    /\ ws_listening
    /\ cached_status = "config_version"
    /\ cached_config = 1
    /\ sub_calls = 1

\* The step ends the handling of a data payload with its merge: at once for
\* a payload without a trigger key, with the last reply of the resync
\* otherwise.
MergeStep ==
    \/ event'.op = "data" /\ event'.arg = "merged"
    \/ event'.op = "fetch" /\ event'.arg = TextArg("handler", "done")

\* The last step was such a step.
MergedLast ==
    \/ event.op = "data" /\ event.arg = "merged"
    \/ event.op = "fetch" /\ event.arg = TextArg("handler", "done")

\* C21 as stated: for every data payload with the key "wh", after the merge
\* the cached status maps "watthour" to that value and holds no "wh" key;
\* every other key of the payload overwrites the same key of the cached
\* status, and the keys absent from the payload keep their cached value.
C21_MergeRenamesAndOverwrites ==
    [][(MergeStep /\ HasKey(last_data', "wh")) =>
          /\ status_dict'["watthour"] = last_data'["wh"]
          /\ ~HasKey(status_dict', "wh")
          /\ \A k \in Keys \ {"wh"} :
                IF HasKey(last_data', k)
                THEN status_dict'[k] = last_data'[k]
                ELSE k # "watthour" => status_dict'[k] = status_dict[k]]_vars

\* C21 as the code has it: for every data payload with the key "wh", after
\* the merge the cached status maps "watthour" to that value, whatever the
\* payload holds under "watthour" itself, and holds no "wh" key; every key
\* of the payload other than "wh" and "watthour" overwrites the same key of
\* the cached status, and the keys absent from the payload, "watthour"
\* aside, keep the value that was cached when the merge was made.
C21_MergeRenamesWhFirst ==
    [][(MergeStep /\ HasKey(last_data', "wh")) =>
          /\ status_dict'["watthour"] = last_data'["wh"]
          /\ ~HasKey(status_dict', "wh")
          /\ \A k \in Keys \ {"wh", "watthour"} :
                IF HasKey(last_data', k)
                THEN status_dict'[k] = last_data'[k]
                ELSE status_dict'[k] = status_dict[k]]_vars

\* A payload with "wh" and another "watthour" has been merged after a
\* resync that fetched a reading the payload does not hold.
C21_Witness ==
    /\ MergedLast
    /\ HasKey(last_data, "wh")
    /\ HasKey(last_data, "watthour")
    /\ last_data["watthour"] # last_data["wh"]
    /\ HasTrigger(last_data)
    /\ ~HasKey(last_data, "temp")
    /\ HasKey(status_dict, "temp")
    /\ status_dict["watthour"] = last_data["wh"]

\* The step hands a data payload to the handler.
PayloadStep == event'.op = "data"

\* The step starts an update() on behalf of the handler.
ResyncStarts == upd["handler"] = <<>> /\ upd'["handler"] # <<>>

\* C22: a data payload with a trigger key causes exactly one resync: the
\* handler starts one update() for it, and starts none for a payload
\* without a trigger key, which is merged at once; the payload is merged by
\* the very step that completes that update(), not before, and into what
\* the update() left in the cache, so every value of the payload wins over
\* the re-fetched value of the same key.
C22_ResyncBeforeMerge ==
    [][/\ PayloadStep =>
             IF HasTrigger(last_data')
             THEN /\ ResyncStarts
                  /\ upd'["handler"] = Urls(ws_listening)
                  /\ pending' = Renamed(last_data')
                  /\ status_dict' = status_dict
                  /\ ~MergeStep
             ELSE /\ upd'["handler"] = <<>>
                  /\ pending' = EmptyDict
                  /\ MergeStep
       /\ ResyncStarts => (PayloadStep /\ HasTrigger(last_data'))
       /\ (pending # EmptyDict /\ upd'["handler"] # <<>>) =>
             (pending' = pending /\ ~MergeStep /\ ~ResyncStarts)
       /\ (pending # EmptyDict /\ MergeStep) =>
             /\ upd["handler"] = <<"config">>
             /\ upd'["handler"] = <<>>
             /\ config_dict' = device[2]
             /\ \A k \in Keys :
                   status_dict'[k] =
                      IF HasKey(pending, k) THEN pending[k]
                      ELSE status_dict[k]]_vars

\* A payload with a trigger key has been merged after a resync that fetched
\* the status as well: the energy counter is the payload's, not the one the
\* device reported, the reading is the one the device reported.
C22_Witness ==
    /\ MergedLast
    /\ HasTrigger(last_data)
    /\ ~HasKey(last_data, "temp")
    /\ HasKey(device[1], "temp")
    /\ status_dict["temp"] = device[1]["temp"]
    /\ status_dict["watthour"] = last_data["wh"]
    /\ status_dict["watthour"] # device[1]["watthour"]
    /\ config_dict = device[2]

\* The step completes an update() of the application.
UpdateReturns == event'.op = "fetch" /\ event'.arg = TextArg("user", "done")

UpdateRaises ==
    /\ event'.op = "fetch"
    /\ \E failure \in FetchFailures : event'.arg = TextArg("user", failure)

\* C24: when a request of update() fails (authentication, timeout, parse
\* error), the exception leaves update(), no connection object is made, the
\* is-listening flag is not touched, and the cached status and the cached
\* config have the values they had before the call (but for what the
\* handler of payloads wrote meanwhile).
C24_FailedUpdateChangesNothing ==
    [][UpdateRaises =>
          /\ upd'["user"] = <<>>
          /\ websocket' = websocket
          /\ ws_listening' = ws_listening
          /\ status_dict' = entry[1]
          /\ config_dict' = entry[2]]_vars

\* The step is a call of ws_start().
StartStep == event'.op = "ws_start"

\* C25: ws_start() called while the is-listening flag is set and the
\* connection is Connected raises AlreadyListening and starts no further
\* listen task or keepalive ticker; the flag and the connection are left
\* as they were.
C25_StartWhileListeningRaises ==
    [][(StartStep /\ ws_listening /\ state = STATE_CONNECTED) =>
          /\ event'.arg = "AlreadyListening"
          /\ task_pairs' = task_pairs
          /\ ws_listening'
          /\ state' = state]_vars

\* ws_start() has raised AlreadyListening on a connection that listens and
\* is Connected; the one pair of tasks is the one the first call made.
C25_Witness ==
    /\ event = Ev("ws_start", "AlreadyListening")
    /\ ws_listening
    /\ state = STATE_CONNECTED
    /\ starts = 2
    /\ task_pairs = 1

\* C26: ws_start() called while the is-listening flag is set but the
\* connection is not Connected does not raise AlreadyListening: it resets
\* the flag and goes on to start listening.
C26_StartResetsStaleFlag ==
    [][(StartStep /\ ws_listening /\ state # STATE_CONNECTED) =>
          /\ event'.arg = "started"
          /\ task_pairs' = task_pairs + 1]_vars

\* The step is a call of a version-gated operation, not the end of one of
\* its requests.
GatedCall == event'.op \in GatedOps /\ op_request = NoRequest

\* C27: a version-gated operation called while the cached firmware release
\* is below the minimum of the operation raises UnsupportedFeature before
\* any request is issued (no request of the operation is in flight after
\* the call, no update() has been started) and leaves the cached status,
\* the cached config, the connection object and the flag unchanged.
C27_OldFirmwareIsRefused ==
    [][(GatedCall /\ config_dict \in 1..5
           /\ config_dict < MinVersion(event'.op)) =>
          /\ event'.arg = "UnsupportedFeature"
          /\ op_request' = NoRequest
          /\ upd' = upd
          /\ UNCHANGED <<status_dict, config_dict, websocket,
                         ws_listening>>]_vars

\* set_limit() has been refused on a firmware 4.1.0, which update() cached.
C27_Witness ==
    /\ event = Ev("set_limit", "UnsupportedFeature")
    /\ config_dict = 4
    /\ websocket = 1
    /\ HasKey(status_dict, "watthour")
    /\ op_request = NoRequest

\* C28: once update() has returned and as long as ws_start() has not been
\* called (the connection has not run, so nothing has written its state),
\* ws_state, the state of the connection object, is "disconnected".
C28_DisconnectedBeforeStart ==
    (refreshed # Stale /\ websocket # NoObject /\ starts = 0 /\ writes = 0)
        => state = STATE_DISCONNECTED

\* C29: keepalive() is not invoked while the state is Stopped: once close()
\* or a fatal error has stopped the connection, the ticker makes no further
\* call (and ends).
C29_NoKeepaliveOnceStopped ==
    [][state = STATE_STOPPED => ticks' = ticks]_vars

\* C30: the ticker invokes keepalive() only while the connection is
\* Connected and its transport is open, never while the state is unset,
\* Starting or Disconnected.
C30_KeepaliveOnlyWhileConnected ==
    [][ticks' # ticks => (state = STATE_CONNECTED /\ transport_open)]_vars

\* The step leaves running() through its else clause: the receive loop has
\* ended without an exception.
NormalExit == pc = "closing" /\ exiting = "normal" /\ event'.op = "block_left"

\* The sleep of the else clause returns.
GraceOver == pc = "grace" /\ event'.op = "sleep_done"

\* C31: when the receive loop ends without an exception and the state is
\* not Stopped, Disconnected is notified with no error reason,
\* failed_attempts keeps its value and the listen task sleeps 5 seconds;
\* when the sleep returns and the connection has not been stopped meanwhile,
\* the listen loop starts a new attempt and notifies Starting.
C31_NormalExitRetriesAfterGrace ==
    [][/\ (NormalExit /\ state # STATE_STOPPED) =>
             /\ state' = STATE_DISCONNECTED
             /\ notified' = notified + 1
             /\ last_notice' = <<STATE_DISCONNECTED, None>>
             /\ failed_attempts' = failed_attempts
             /\ nsleeps' = nsleeps + 1
             /\ retry_delay' = 5
             /\ pc' = "grace"
       /\ (GraceOver /\ state # STATE_STOPPED) =>
             /\ state' = STATE_STARTING
             /\ last_notice'[1] = STATE_STARTING
             /\ attempts' = attempts + 1
             /\ failed_attempts' = failed_attempts]_vars

\* A second attempt has begun after the 5 seconds that followed the end of
\* the stream of the first.
C31_Witness ==
    /\ event.op = "sleep_done"
    /\ state = STATE_STARTING
    /\ retry_delay = 5
    /\ nsleeps = 1
    /\ attempts = 2
    /\ failed_attempts = 0

\* C32: every text frame whose payload holds the key "pong" sets the time
\* of the last pong to the time of its receipt, whatever becomes of the
\* delivery of the payload to the callback.
C32_PongAlwaysRecorded ==
    [][(event'.op = "text" /\ FramePayload("pong")) => pong' = now]_vars

\* The payload whose handling the step ends, after the rename.
HandledPayload ==
    IF event'.op = "data" THEN Renamed(last_data') ELSE pending

\* C33: every data payload that the facade handles to the end is merged
\* into the cached status, and then the subscriber, a plain function or a
\* coroutine function, is invoked exactly once and finds the payload merged;
\* with no subscriber registered the merge happens all the same and nothing
\* is invoked.  No other step invokes the subscriber.
C33_SubscriberCalledOnceAfterMerge ==
    [][/\ MergeStep =>
             /\ \A k \in Keys : HasKey(HandledPayload, k) =>
                                    status_dict'[k] = HandledPayload[k]
             /\ IF callback = None
                THEN UNCHANGED <<sub_calls, sub_seen>>
                ELSE /\ sub_calls' = sub_calls + 1
                     /\ sub_seen' = status_dict'
       /\ ~MergeStep => UNCHANGED <<sub_calls, sub_seen>>]_vars

\* A coroutine function has been called once, at the end of the resync of
\* a payload with a trigger key, and has found the payload merged.
C33_Witness ==
    /\ callback = "coroutine"
    /\ event = Ev("fetch", TextArg("handler", "done"))
    /\ sub_calls = 1
    /\ HasKey(status_dict, "config_version")
    /\ sub_seen = status_dict

\* The listen loop is running: it awaits a handshake, a frame, the closing
\* of the transport or the end of a sleep.
ListenRunning ==
    pc \in {"handshake", "refused", "receiving", "closing", "backoff",
            "grace"}

\* C34: ws_start() makes a listen task and a ticker only when no listen
\* loop made earlier is still running, so that at most one pair is active.
C34_OnePairAtATime ==
    [][task_pairs' > task_pairs => ~ListenRunning]_vars

\* C35: a text frame is handed to the callback only while the state is
\* Connected, never while it is Starting, Disconnected or Stopped.
C35_DispatchOnlyWhileConnected ==
    [][DispatchStep => state = STATE_CONNECTED]_vars

\* No operation of the facade is under way: no update() and no request of
\* a version-gated operation awaits a reply, no handler awaits a resync.
FacadeIdle ==
    /\ \A c \in Callers : upd[c] = <<>>
    /\ op_request = NoRequest
    /\ pending = EmptyDict

\* C36: whenever the state of the connection is Stopped and no operation of
\* the facade is under way, the is-listening flag is false.
C36_StoppedMeansNotListening ==
    (state = STATE_STOPPED /\ FacadeIdle) => ~ws_listening

\* The step notifies Starting for an attempt that is not the first.
Reconnects ==
    /\ notified' = notified + 1
    /\ last_notice'[1] = STATE_STARTING
    /\ attempts > 0

\* C37: the listen loop never reconnects without a delay.  A Starting
\* notification that is not the first is made by the return of a sleep of
\* the listen task, the backoff delay or the 5 seconds of the else clause,
\* and that sleep began after the Starting notification before it: every
\* attempt made so far has been followed by one sleep.
C37_ReconnectAfterSleep ==
    [][Reconnects =>
          /\ event'.op = "sleep_done"
          /\ pc \in {"backoff", "grace"}
          /\ nsleeps = attempts
          /\ retry_delay >= 5]_vars

\* The second attempt has begun after the backoff of a refused handshake.
C37_Witness ==
    /\ event.op = "sleep_done"
    /\ state = STATE_STARTING
    /\ attempts = 2
    /\ nsleeps = 1
    /\ retry_delay = RetryDelay(0)
    /\ failed_attempts = 1

\* The step hands over a payload with a trigger key, and the update() that
\* the handler awaits raises.
ResyncFailure ==
    /\ event'.op = "text"
    /\ \E t \in UPDATE_TRIGGERS, o \in {"transport", "resync_error"} :
          event'.arg = TextArg(t, o)

\* C38: a resync that fails inside the handler of a data payload leaves the
\* connection as it is: the state and failed_attempts keep their values,
\* the transport stays open and the receive loop goes on to the next frame.
C38_ResyncFailureKeepsConnection ==
    [][ResyncFailure =>
          /\ pc' = "receiving"
          /\ UNCHANGED <<state, failed_attempts, transport_open>>]_vars

\* The timestamp was taken on a connection made before the one that
\* self._client holds.
Earlier(stamp) == stamp # Unset /\ stamp < client

\* The step is a keepalive() on an established connection that finds both
\* timestamps set and so compares them.
PongCheck ==
    /\ ticks' # ticks
    /\ state = STATE_CONNECTED
    /\ transport_open
    /\ ping # Unset
    /\ pong # Unset

====
